---- MODULE Spec2Model ----
(***************************************************************************)
(* A model of klipper_sdk/generational.py: the GenerationTracker, the      *)
(* GenerationalBlueprintManager and the GenerationalImprovementLoop.       *)
(*                                                                         *)
(* Python values are modelled as follows.  A list is a sequence, a dict a  *)
(* function on its keys, Optional[T] is the empty set (None) or a          *)
(* singleton.  The timestamps (time.time(), datetime.now()) are left out   *)
(* of metrics and snapshots: no operation of the module reads them.        *)
(***************************************************************************)
EXTENDS Integers, Sequences, FiniteSets, TLC

VARIABLES
    tracker,      \* the GenerationTracker object
    loop,         \* the GenerationalImprovementLoop object
    pc,           \* position of the running run_full_cycle ("idle": none runs)
    results,      \* the results dict of run_full_cycle
    outcome,      \* how the last call ended: "returned", or the exception raised
    phases,       \* current_phase as observed after each phase of the current cycle
    pre,          \* the tracker as it was when the cycle began (None: no cycle since)
    saved_data,   \* what the persistence callback has been called with
    logged,       \* metrics passed to log_metric since the last start_next_generation
    n_finalize,   \* number of finalize_generation calls made so far
    protocol,     \* "sealed", "open", or "broken" once start_next_generation and
                  \* finalize_generation have not alternated (start first)
    trend,        \* the get_metric_trend call just made: its argument and what it
                  \* returned (None: the last call was another one)
    n_success,    \* number of run_full_cycle calls that ran all five phases
    n_calls,      \* number of calls made by the caller so far
    linesep,      \* os.linesep of the platform
    storage,      \* the files under storage_root: file name -> characters on disk
    saved,        \* (name, version_tag) -> the content most recently saved under it
    loaded        \* the last load_blueprint call: its arguments and what it returned

trackervars == <<tracker, loop, pc, results, outcome, phases, pre, saved_data, logged, n_finalize, protocol, trend, n_success>>
blueprintvars == <<linesep, storage, saved, loaded>>
vars == <<trackervars, n_calls, blueprintvars>>

(***************************************************************************)
(* Bound of the model: the caller makes at most MaxCalls calls (a call of  *)
(* run_full_cycle counts as one).                                          *)
(***************************************************************************)
MaxCalls == 5

(***************************************************************************)
(* Python helpers.                                                         *)
(***************************************************************************)
None == {}
Some(x) == {x}
TheValue(opt) == CHOOSE x \in opt : TRUE
EmptyDict == <<>>
\* d.get(k): the value, or None when the key is absent
Get(d, k) == IF k \in DOMAIN d THEN Some(d[k]) ELSE None
\* d.get(k, default)
GetOr(d, k, default) == IF k \in DOMAIN d THEN d[k] ELSE default
\* d[k] = v
Put(d, k, v) == (k :> v) @@ d
\* "x or default", for x that is None, a list or a dict: None, [] and {} are
\* falsy, and the default stands in for them.
Or(opt, default) ==
    IF opt = None THEN default
    ELSE IF DOMAIN TheValue(opt) = {} THEN default ELSE TheValue(opt)

(***************************************************************************)
(* Enums and data structures.                                              *)
(***************************************************************************)
\* The members of GenerationPhase are written as their names.  A member of
\* ComponentStatus is an object with a value, which to_json takes out.
GenerationPhase == {"TEST", "ANALYZE", "APPLY", "ADVANCE", "VALIDATE"}
ComponentStatus == {[value |-> v] : v \in {"ALPHA", "BETA", "STABLE", "DEPRECATED"}}
ALPHA == [value |-> "ALPHA"]
STABLE == [value |-> "STABLE"]

GenerationMetric(name, value, tags) ==
    [name |-> name, value |-> value, tags |-> tags]

GenerationArtifact(name, artifact_type, path, hash_sum) ==
    [name |-> name, artifact_type |-> artifact_type, path |-> path,
     hash_sum |-> hash_sum, metadata |-> EmptyDict]

GenerationSnapshot(gen_id, component_name, status, metrics, artifacts, changelog, parent) ==
    [gen_id |-> gen_id, component_name |-> component_name, status |-> status,
     metrics |-> metrics, artifacts |-> artifacts, changelog |-> changelog,
     parent_gen_id |-> parent]

(***************************************************************************)
(* The file system register_artifact reads: the regular files that exist,  *)
(* and the digest of each one's bytes.                                     *)
(***************************************************************************)
ExistingFiles == {"build.log"}
Md5(path) == "md5:" \o path

(***************************************************************************)
(* GenerationTracker.  Each method is a function of the tracker object t   *)
(* to a record: the tracker afterwards (t), the value returned (ret) and   *)
(* whether the call raised.                                                *)
(***************************************************************************)
TrackerInit(component_name, persistence_callback) ==
    [component_name |-> component_name,
     current_generation |-> 0,
     history |-> <<>>,
     _current_metrics |-> <<>>,
     _current_artifacts |-> EmptyDict,
     _persistence_callback |-> persistence_callback]

\* Variants of start_next_generation with a slip in it: the counter advanced
\* by two, the old counter returned, the counter left alone, the whole
\* working set kept, the open metrics kept.
start_next_generation_by_two(t) ==
    LET t1 == [t EXCEPT !.current_generation = @ + 2,
                        !._current_metrics = <<>>,
                        !._current_artifacts = EmptyDict]
    IN [t |-> t1, ret |-> t1.current_generation]

start_next_generation_returns_old(t) ==
    LET t1 == [t EXCEPT !.current_generation = @ + 1,
                        !._current_metrics = <<>>,
                        !._current_artifacts = EmptyDict]
    IN [t |-> t1, ret |-> t.current_generation]

start_next_generation_keeps_counter(t) ==
    LET t1 == [t EXCEPT !._current_metrics = <<>>,
                        !._current_artifacts = EmptyDict]
    IN [t |-> t1, ret |-> t1.current_generation]

start_next_generation_keeps_working_set(t) ==
    LET t1 == [t EXCEPT !.current_generation = @ + 1]
    IN [t |-> t1, ret |-> t1.current_generation]

start_next_generation_keeps_metrics(t) ==
    LET t1 == [t EXCEPT !.current_generation = @ + 1,
                        !._current_artifacts = EmptyDict]
    IN [t |-> t1, ret |-> t1.current_generation]

start_next_generation(t) ==
    LET t1 == [t EXCEPT !.current_generation = @ + 1,
                        !._current_metrics = <<>>,
                        !._current_artifacts = EmptyDict]
    IN [t |-> t1, ret |-> t1.current_generation]

\* tags is None (the default) or a dict
log_metric(t, name, value, tags) ==
    LET metric == GenerationMetric(name, value, Or(tags, EmptyDict))
    IN [t EXCEPT !._current_metrics = Append(@, metric)]

register_artifact(t, name, path, type_hint) ==
    LET checksum == IF path \in ExistingFiles THEN Md5(path) ELSE "unknown"
        artifact == GenerationArtifact(name, type_hint, path, checksum)
    IN [t EXCEPT !._current_artifacts = Put(@, name, artifact)]

\* Variant of to_json: the parent is not serialized
to_json_without_parent(snapshot) ==
    [gen_id |-> snapshot.gen_id,
     component_name |-> snapshot.component_name,
     status |-> snapshot.status.value,
     metrics |-> snapshot.metrics,
     artifacts |-> snapshot.artifacts,
     changelog |-> snapshot.changelog,
     parent_gen_id |-> None]

\* snapshot.to_json() read back by json.loads: a plain mapping, the status
\* rendered as its string value, None as null.
to_json(snapshot) ==
    [gen_id |-> snapshot.gen_id,
     component_name |-> snapshot.component_name,
     status |-> snapshot.status.value,
     metrics |-> snapshot.metrics,
     artifacts |-> snapshot.artifacts,
     changelog |-> snapshot.changelog,
     parent_gen_id |-> snapshot.parent_gen_id]

\* Variant of parent_of: the parent computed from the counter
parent_of_from_counter(t) ==
    IF t.history # <<>> THEN Some(t.current_generation - 1) ELSE None

\* self.history[-1].gen_id if self.history else None
parent_of(t) ==
    IF t.history # <<>> THEN Some(t.history[Len(t.history)].gen_id) ELSE None

\* Variant of append_snapshot: a snapshot of a generation already in history
\* takes the place of the earlier one
append_snapshot_overwrite(history, snapshot) ==
    IF history # <<>> /\ history[Len(history)].gen_id = snapshot.gen_id
    THEN [history EXCEPT ![Len(history)] = snapshot]
    ELSE Append(history, snapshot)

\* self.history.append(snapshot)
append_snapshot(history, snapshot) == Append(history, snapshot)

\* Variant of finalize_generation: the callback is called before the snapshot
\* is appended
finalize_generation_callback_first(t, status, notes) ==
    LET snapshot == GenerationSnapshot(
            t.current_generation,
            t.component_name,
            status,
            t._current_metrics,
            t._current_artifacts,
            Or(notes, <<>>),
            parent_of(t))
        t1 == [t EXCEPT !.history = append_snapshot(@, snapshot)]
    IN CASE t._persistence_callback = "None" ->
              [t |-> t1, ret |-> Some(snapshot), raised |-> FALSE, persisted |-> None]
         [] t._persistence_callback = "persist" ->
              [t |-> t1, ret |-> Some(snapshot), raised |-> FALSE,
               persisted |-> Some(to_json(snapshot))]
         [] OTHER ->
              [t |-> t, ret |-> None, raised |-> TRUE,
               persisted |-> Some(to_json(snapshot))]

\* Variant of finalize_generation: the working set of metrics is cleared
finalize_generation_clears_metrics(t, status, notes) ==
    LET snapshot == GenerationSnapshot(
            t.current_generation,
            t.component_name,
            status,
            t._current_metrics,
            t._current_artifacts,
            Or(notes, <<>>),
            parent_of(t))
        t1 == [t EXCEPT !.history = append_snapshot(@, snapshot), !._current_metrics = <<>>]
    IN CASE t._persistence_callback = "None" ->
              [t |-> t1, ret |-> Some(snapshot), raised |-> FALSE, persisted |-> None]
         [] t._persistence_callback = "persist" ->
              [t |-> t1, ret |-> Some(snapshot), raised |-> FALSE,
               persisted |-> Some(to_json(snapshot))]
         [] OTHER ->
              [t |-> t1, ret |-> None, raised |-> TRUE,
               persisted |-> Some(to_json(snapshot))]

\* notes is None (the default) or a list.  The record returned also carries
\* what the persistence callback was called with (None: it was not called).
finalize_generation(t, status, notes) ==
    LET snapshot == GenerationSnapshot(
            t.current_generation,
            t.component_name,
            status,
            t._current_metrics,
            t._current_artifacts,
            Or(notes, <<>>),
            parent_of(t))
        t1 == [t EXCEPT !.history = append_snapshot(@, snapshot)]
    IN CASE t._persistence_callback = "None" ->
              [t |-> t1, ret |-> Some(snapshot), raised |-> FALSE, persisted |-> None]
         [] t._persistence_callback = "persist" ->
              [t |-> t1, ret |-> Some(snapshot), raised |-> FALSE,
               persisted |-> Some(to_json(snapshot))]
         [] OTHER ->
              [t |-> t1, ret |-> None, raised |-> TRUE,
               persisted |-> Some(to_json(snapshot))]

\* Variant of FirstMatch: the last metric named metric_name is taken
FirstMatch_takes_last(snap, metric_name) ==
    LET idx == {i \in 1..Len(snap.metrics) : snap.metrics[i].name = metric_name}
    IN IF idx = {} THEN <<>>
       ELSE <<  <<snap.gen_id,
                  snap.metrics[CHOOSE i \in idx : \A j \in idx : i >= j].value>>  >>

\* The inner loop of get_metric_trend over one snapshot: the first metric
\* named metric_name, as a list of 0 or 1 pairs
FirstMatch(snap, metric_name) ==
    LET idx == {i \in 1..Len(snap.metrics) : snap.metrics[i].name = metric_name}
    IN IF idx = {} THEN <<>>
       ELSE <<  <<snap.gen_id,
                  snap.metrics[CHOOSE i \in idx : \A j \in idx : i <= j].value>>  >>

RECURSIVE TrendOf(_, _)
TrendOf(hist, metric_name) ==
    IF hist = <<>> THEN <<>>
    ELSE TrendOf(SubSeq(hist, 1, Len(hist) - 1), metric_name)
         \o FirstMatch(hist[Len(hist)], metric_name)

get_metric_trend(t, metric_name) == TrendOf(t.history, metric_name)

(***************************************************************************)
(* GenerationalBlueprintManager.  A text is a sequence of characters, with *)
(* "CR" and "LF" for carriage return and line feed; a file holds the       *)
(* characters written to it.  Both save_blueprint (open(path, "w")) and    *)
(* load_blueprint (Path.read_text) use text mode with newline=None: every  *)
(* line feed written becomes os.linesep, and what is read has "CR LF" and  *)
(* a lone "CR" turned into a line feed.                                    *)
(***************************************************************************)
RECURSIVE TranslateOnWrite(_, _)
TranslateOnWrite(text, sep) ==
    IF text = <<>> THEN <<>>
    ELSE (IF Head(text) = "LF" THEN sep ELSE <<Head(text)>>)
         \o TranslateOnWrite(Tail(text), sep)

RECURSIVE TranslateOnRead(_)
TranslateOnRead(chars) ==
    IF chars = <<>> THEN <<>>
    ELSE IF Head(chars) = "CR"
         THEN IF Len(chars) >= 2 /\ chars[2] = "LF"
              THEN <<"LF">> \o TranslateOnRead(Tail(Tail(chars)))
              ELSE <<"LF">> \o TranslateOnRead(Tail(chars))
         ELSE <<Head(chars)>> \o TranslateOnRead(Tail(chars))

\* f"{name}_v{version_tag}.kl", the file's name under storage_root
blueprint_filename(name, version_tag) == name \o "_v" \o version_tag \o ".kl"

save_blueprint(files, sep, name, content, version_tag) ==
    LET path == blueprint_filename(name, version_tag)
    IN [files |-> Put(files, path, TranslateOnWrite(content, sep)), ret |-> path]

load_blueprint(files, name, version_tag) ==
    LET path == blueprint_filename(name, version_tag)
    IN IF path \in DOMAIN files THEN Some(TranslateOnRead(files[path])) ELSE None

\* str.splitlines on what load_blueprint returned: the lines, as strings,
\* without their line ends; a line ends at "LF", "CR" or "CR LF", and text
\* after the last line end is a line when it is not empty.
RECURSIVE SplitLinesFrom(_, _)
SplitLinesFrom(chars, cur) ==
    IF chars = <<>> THEN (IF cur = "" THEN <<>> ELSE <<cur>>)
    ELSE IF Head(chars) = "LF" THEN <<cur>> \o SplitLinesFrom(Tail(chars), "")
    ELSE IF Head(chars) = "CR"
         THEN IF Len(chars) >= 2 /\ chars[2] = "LF"
              THEN <<cur>> \o SplitLinesFrom(Tail(Tail(chars)), "")
              ELSE <<cur>> \o SplitLinesFrom(Tail(chars), "")
    ELSE SplitLinesFrom(Tail(chars), cur \o Head(chars))

splitlines(chars) == SplitLinesFrom(chars, "")

\* difflib's "start,length" of a hunk that covers lines start+1 .. stop
Digits == <<"0", "1", "2", "3", "4", "5", "6", "7", "8", "9">>
format_range_unified(start, stop) ==
    LET length == stop - start
        beginning == IF length = 0 THEN start ELSE start + 1
    IN IF length = 1 THEN Digits[beginning + 1]
       ELSE Digits[beginning + 1] \o "," \o Digits[length + 1]

\* How many leading lines a and b share
RECURSIVE CommonPrefix(_, _)
CommonPrefix(a, b) ==
    IF a = <<>> \/ b = <<>> \/ Head(a) # Head(b) THEN 0
    ELSE 1 + CommonPrefix(Tail(a), Tail(b))

Reverse(s) == [i \in 1..Len(s) |-> s[Len(s) + 1 - i]]
Prefixed(mark, lines) == [i \in 1..Len(lines) |-> mark \o lines[i]]

\* difflib.unified_diff(a, b, fromfile, tofile) as a list, for texts of at
\* most three lines that differ in one block of lines: nothing when a = b,
\* otherwise the two header lines, one hunk header and the hunk (the lines
\* shared before the block, the lines of a, the lines of b, the lines shared
\* after).  The header lines end with the default lineterm.
unified_diff(a, b, fromfile, tofile) ==
    LET p == CommonPrefix(a, b)
        ra == SubSeq(a, p + 1, Len(a))
        rb == SubSeq(b, p + 1, Len(b))
        q == CommonPrefix(Reverse(ra), Reverse(rb))
    IN IF a = b THEN <<>>
       ELSE << "--- " \o fromfile \o "\n", "+++ " \o tofile \o "\n",
               "@@ -" \o format_range_unified(0, Len(a)) \o " +"
                      \o format_range_unified(0, Len(b)) \o " @@\n" >>
            \o Prefixed(" ", SubSeq(a, 1, p))
            \o Prefixed("-", SubSeq(ra, 1, Len(ra) - q))
            \o Prefixed("+", SubSeq(rb, 1, Len(rb) - q))
            \o Prefixed(" ", SubSeq(ra, Len(ra) - q + 1, Len(ra)))

diff_blueprints(files, name, v1, v2) ==
    LET b1 == load_blueprint(files, name, v1)
        b2 == load_blueprint(files, name, v2)
    IN IF b1 = None \/ b2 = None
       THEN <<"Error: One or both versions not found.">>
       ELSE unified_diff(splitlines(TheValue(b1)), splitlines(TheValue(b2)),
                         name \o ":" \o v1, name \o ":" \o v2)

(***************************************************************************)
(* GenerationalImprovementLoop.  Each phase method is a function of the    *)
(* loop object l and the tracker t to a record: both objects afterwards,   *)
(* the dict returned (ret) and the exception raised ("" when none).        *)
(***************************************************************************)
LoopInit(phase_test_fn, phase_apply_fn) ==
    [current_phase |-> "TEST", phase_test |-> phase_test_fn, phase_apply |-> phase_apply_fn]

_switch_phase(l, phase) == [l EXCEPT !.current_phase = phase]

\* Coverage is counted in hundredths: 0.88 is 88, the threshold 0.9 is 90.
phase_test(l, t, context) ==
    LET l1 == _switch_phase(l, "TEST")
        t1 == log_metric(t, "phase_test_duration_ms", 120, None)
    IN [l |-> l1, t |-> t1, raised |-> "",
        ret |-> [success |-> TRUE, coverage |-> 88, failures |-> <<>>]]

\* test_results.get("coverage") < 0.9 compares None with a float when the key
\* is absent, which raises TypeError.
phase_analyze(l, t, test_results) ==
    LET l1 == _switch_phase(l, "ANALYZE")
    IN IF Get(test_results, "coverage") = None
       THEN [l |-> l1, t |-> t, raised |-> "TypeError", ret |-> EmptyDict]
       ELSE [l |-> l1, t |-> t, raised |-> "",
             ret |-> [recommendations |->
                          IF test_results["coverage"] < 90
                          THEN <<"optimize_query_speed">> ELSE <<>>,
                      priority |-> "HIGH"]]

\* Variant of phase_apply: the phase marker is not switched
phase_apply_no_switch(l, t, analysis, context) ==
    [l |-> l, t |-> t, raised |-> "",
     ret |-> [changes |-> <<"Ran optimizer">>, diff_summary |-> "+5 lines, -2 lines"]]

phase_apply(l, t, analysis, context) ==
    LET l1 == _switch_phase(l, "APPLY")
    IN [l |-> l1, t |-> t, raised |-> "",
        ret |-> [changes |-> <<"Ran optimizer">>, diff_summary |-> "+5 lines, -2 lines"]]

\* Variant of LogChanges: the changes are logged last first
RECURSIVE LogChanges_last_first(_, _)
LogChanges_last_first(t, changes) ==
    IF changes = <<>> THEN t
    ELSE log_metric(LogChanges_last_first(t, Tail(changes)),
                    "applied_change", 1, Some([desc |-> Head(changes)]))

\* Variant of LogChanges: no metric is logged for the changes
LogChanges_logs_nothing(t, changes) == t

\* The for loop of phase_advance over the list changes
RECURSIVE LogChanges(_, _)
LogChanges(t, changes) ==
    IF changes = <<>> THEN t
    ELSE LogChanges(log_metric(t, "applied_change", 1, Some([desc |-> Head(changes)])),
                    Tail(changes))

\* Variant of phase_advance: the phase marker is not switched
phase_advance_no_switch(l, t, apply_results) ==
    LET s == start_next_generation(t)
        gen_id == s.ret
        t2 == LogChanges(s.t, GetOr(apply_results, "changes", <<>>))
        f == finalize_generation(t2, STABLE, Get(apply_results, "changes"))
    IN [l |-> l, t |-> f.t, persisted |-> f.persisted,
        raised |-> IF f.raised THEN "CallbackError" ELSE "",
        ret |-> IF f.raised THEN EmptyDict
                ELSE [gen_id |-> gen_id, snapshot_id |-> "timestamp"]]

phase_advance(l, t, apply_results) ==
    LET l1 == _switch_phase(l, "ADVANCE")
        s == start_next_generation(t)
        gen_id == s.ret
        t2 == LogChanges(s.t, GetOr(apply_results, "changes", <<>>))
        f == finalize_generation(t2, STABLE, Get(apply_results, "changes"))
    IN [l |-> l1, t |-> f.t, persisted |-> f.persisted,
        raised |-> IF f.raised THEN "CallbackError" ELSE "",
        ret |-> IF f.raised THEN EmptyDict
                ELSE [gen_id |-> gen_id, snapshot_id |-> "timestamp"]]

phase_validate(l, t, advance_results) ==
    LET l1 == _switch_phase(l, "VALIDATE")
        validated == TRUE
        t1 == log_metric(t, "validation_success", IF validated THEN 1 ELSE 0, None)
    IN [l |-> l1, t |-> t1, raised |-> "",
        ret |-> [validated |-> validated, score |-> 100]]

\* self.phase_test(context) and self.phase_apply(analysis, context) call the
\* method of the class, or the function the caller has put in its place (as
\* the test suite does with a lambda), which returns its dict and touches
\* neither the loop nor the tracker.
call_phase_test(l, t, context, replacement_ret) ==
    IF l.phase_test = "default" THEN phase_test(l, t, context)
    ELSE [l |-> l, t |-> t, raised |-> "", ret |-> replacement_ret]

call_phase_apply(l, t, analysis, context, replacement_ret) ==
    IF l.phase_apply = "default" THEN phase_apply(l, t, analysis, context)
    ELSE [l |-> l, t |-> t, raised |-> "", ret |-> replacement_ret]

\* Variant of run_full_cycle_next: the result of the Test phase is not looked at
run_full_cycle_next_ignores_failure(p, res) ==
    CASE p = "test" -> "analyze"
      [] p = "analyze" -> "apply"
      [] p = "apply" -> "advance"
      [] p = "advance" -> "validate"
      [] p = "validate" -> "return"

\* run_full_cycle: where control goes after the phase at position p has
\* stored its result in res ("return": the method returns res).
run_full_cycle_next(p, res) ==
    CASE p = "test" -> IF ~GetOr(res["test"], "success", FALSE) THEN "return"
                       ELSE "analyze"
      [] p = "analyze" -> "apply"
      [] p = "apply" -> "advance"
      [] p = "advance" -> "validate"
      [] p = "validate" -> "return"

(***************************************************************************)
(* The inputs the callers choose.                                          *)
(***************************************************************************)
\* Two values of one name: a generation may log a name more than once
MetricInputs == {<<"cpu_usage", 45>>, <<"cpu_usage", 50>>}
\* The names get_metric_trend is asked for
TrendNames == {"cpu_usage", "applied_change"}
ArtifactPaths == {"build.log", "missing.log"}
\* finalize_generation() with its defaults, and as the demo calls it
FinalizeInputs == {<<STABLE, None>>, <<ALPHA, Some(<<"Initial setup">>)>>}
Context == [target |-> "core_module"]
\* What a phase_test put in place of the default may return
ReplacedTestResults ==
    {[success |-> TRUE, coverage |-> 100], [success |-> TRUE], [success |-> FALSE]}
\* What a phase_apply put in place of the default may return
ReplacedApplyResults ==
    {[changes |-> <<"mock_change">>], [changes |-> <<"c1", "c2">>],
     [changes |-> <<>>], [diff_summary |-> "nothing"]}

(***************************************************************************)
(* Initial state: the objects as constructed (setUp of the test suite),    *)
(* with the phase functions the caller has installed.                      *)
(***************************************************************************)
Init ==
    /\ tracker = TrackerInit("TestComponent", "None")
    /\ loop \in {LoopInit(tf, af) : tf \in {"default", "replaced"}, af \in {"default", "replaced"}}
    /\ pc = "idle"
    /\ results = EmptyDict
    /\ outcome = "returned"
    /\ phases = <<>>
    /\ pre = None
    /\ saved_data = <<>>
    /\ logged = <<>>
    /\ n_finalize = 0
    /\ protocol = "sealed"
    /\ trend = None
    /\ n_success = 0
    /\ n_calls = 0
    /\ linesep = <<"LF">>
    /\ storage = EmptyDict
    /\ saved = EmptyDict
    /\ loaded = None

(***************************************************************************)
(* Direct calls of the tracker's methods, made while no cycle runs (the    *)
(* module is single-threaded).                                             *)
(***************************************************************************)
\* What every direct call leaves of the loop and of its last cycle
DirectCall ==
    /\ pc = "idle"
    /\ n_calls < MaxCalls
    /\ n_calls' = n_calls + 1
    /\ pc' = pc
    /\ loop' = loop
    /\ results' = EmptyDict
    /\ phases' = <<>>
    /\ pre' = None
    /\ UNCHANGED blueprintvars

StartNextGeneration ==
    /\ DirectCall
    /\ tracker' = start_next_generation(tracker).t
    /\ outcome' = "returned"
    /\ logged' = <<>>
    /\ protocol' = IF protocol = "sealed" THEN "open" ELSE "broken"
    /\ trend' = None
    /\ UNCHANGED <<n_finalize, saved_data, n_success>>

LogMetric ==
    /\ DirectCall
    /\ \E m \in MetricInputs :
          /\ tracker' = log_metric(tracker, m[1], m[2], None)
          /\ logged' = Append(logged, GenerationMetric(m[1], m[2], EmptyDict))
    /\ outcome' = "returned"
    /\ trend' = None
    /\ UNCHANGED <<n_finalize, saved_data, protocol, n_success>>

RegisterArtifact ==
    /\ DirectCall
    /\ \E path \in ArtifactPaths :
          tracker' = register_artifact(tracker, "build_log", path, "file")
    /\ outcome' = "returned"
    /\ trend' = None
    /\ UNCHANGED <<logged, n_finalize, saved_data, protocol, n_success>>

FinalizeGeneration ==
    /\ DirectCall
    /\ \E in \in FinalizeInputs :
          LET r == finalize_generation(tracker, in[1], in[2])
          IN /\ tracker' = r.t
             /\ outcome' = IF r.raised THEN "CallbackError" ELSE "returned"
             /\ saved_data' = IF r.persisted = None THEN saved_data
                              ELSE Append(saved_data, TheValue(r.persisted))
    /\ n_finalize' = n_finalize + 1
    /\ protocol' = IF protocol = "open" THEN "sealed" ELSE "broken"
    /\ trend' = None
    /\ UNCHANGED <<logged, n_success>>

\* get_metric_trend assigns to no attribute of the tracker
GetMetricTrend ==
    /\ DirectCall
    /\ \E metric_name \in TrendNames :
          trend' = Some([metric_name |-> metric_name,
                         ret |-> get_metric_trend(tracker, metric_name)])
    /\ tracker' = tracker
    /\ outcome' = "returned"
    /\ UNCHANGED <<logged, n_finalize, saved_data, protocol, n_success>>

(***************************************************************************)
(* run_full_cycle, one step per phase.  A step calls the phase, stores its *)
(* result under key p and moves on as run_full_cycle_next says; a phase    *)
(* that raises ends the call with the exception.                           *)
(***************************************************************************)
CycleStep(p, r, res0) ==
    /\ UNCHANGED blueprintvars
    /\ loop' = r.l
    /\ tracker' = r.t
    /\ phases' = Append(IF p = "test" THEN <<>> ELSE phases, r.l.current_phase)
    /\ trend' = None
    /\ n_success' = IF p = "validate" /\ r.raised = "" THEN n_success + 1 ELSE n_success
    /\ IF r.raised # ""
       THEN /\ pc' = "idle"
            /\ results' = res0
            /\ outcome' = r.raised
       ELSE LET res == Put(res0, p, r.ret)
                nxt == run_full_cycle_next(p, res)
            IN /\ results' = res
               /\ pc' = IF nxt = "return" THEN "idle" ELSE nxt
               /\ outcome' = IF nxt = "return" THEN "returned" ELSE "running"

CycleTest ==
    /\ pc = "idle"
    /\ n_calls < MaxCalls
    /\ n_calls' = n_calls + 1
    /\ \E replacement_ret \in ReplacedTestResults :
          CycleStep("test", call_phase_test(loop, tracker, Context, replacement_ret), EmptyDict)
    /\ pre' = Some(tracker)
    /\ logged' = IF loop.phase_test = "default"
                 THEN Append(logged, GenerationMetric("phase_test_duration_ms", 120, EmptyDict))
                 ELSE logged
    /\ UNCHANGED <<n_finalize, saved_data, protocol>>

CycleAnalyze ==
    /\ pc = "analyze"
    /\ CycleStep("analyze", phase_analyze(loop, tracker, results["test"]), results)
    /\ UNCHANGED <<logged, n_finalize, pre, saved_data, protocol, n_calls>>

CycleApply ==
    /\ pc = "apply"
    /\ \E replacement_ret \in ReplacedApplyResults :
          CycleStep("apply", call_phase_apply(loop, tracker, results["analyze"], Context, replacement_ret), results)
    /\ UNCHANGED <<logged, n_finalize, pre, saved_data, protocol, n_calls>>

CycleAdvance ==
    /\ pc = "advance"
    /\ LET r == phase_advance(loop, tracker, results["apply"])
           changes == GetOr(results["apply"], "changes", <<>>)
       IN /\ CycleStep("advance", r, results)
          /\ saved_data' = IF r.persisted = None THEN saved_data
                           ELSE Append(saved_data, TheValue(r.persisted))
          /\ logged' = [i \in 1..Len(changes) |->
                           GenerationMetric("applied_change", 1, [desc |-> changes[i]])]
    /\ n_finalize' = n_finalize + 1
    /\ protocol' = IF protocol = "sealed" THEN "sealed" ELSE "broken"
    /\ UNCHANGED <<pre, n_calls>>

CycleValidate ==
    /\ pc = "validate"
    /\ CycleStep("validate", phase_validate(loop, tracker, results["advance"]), results)
    /\ logged' = Append(logged, GenerationMetric("validation_success", 1, EmptyDict))
    /\ UNCHANGED <<n_finalize, pre, saved_data, protocol, n_calls>>

Next ==
    \/ StartNextGeneration
    \/ LogMetric
    \/ RegisterArtifact
    \/ FinalizeGeneration
    \/ GetMetricTrend
    \/ CycleTest
    \/ CycleAnalyze
    \/ CycleApply
    \/ CycleAdvance
    \/ CycleValidate

Spec == Init /\ [][Next]_vars

(***************************************************************************)
(* The same operations on a tracker constructed with a persistence         *)
(* callback: one that keeps what it is given (as the test suite's does),   *)
(* or one that raises.                                                     *)
(***************************************************************************)
Callbacks == {"persist", "raises"}

InitCallback ==
    /\ tracker \in {TrackerInit("TestComponent", cb) : cb \in Callbacks}
    /\ loop = LoopInit("default", "default")
    /\ pc = "idle"
    /\ results = EmptyDict
    /\ outcome = "returned"
    /\ phases = <<>>
    /\ pre = None
    /\ saved_data = <<>>
    /\ logged = <<>>
    /\ n_finalize = 0
    /\ protocol = "sealed"
    /\ trend = None
    /\ n_success = 0
    /\ n_calls = 0
    /\ linesep = <<"LF">>
    /\ storage = EmptyDict
    /\ saved = EmptyDict
    /\ loaded = None

SpecCallback == InitCallback /\ [][Next]_vars

(***************************************************************************)
(* The blueprint store on its own: a GenerationalBlueprintManager on       *)
(* either platform, and the names, tags and contents its callers choose.   *)
(***************************************************************************)
BlueprintNames == {"api", "api_v2"}
VersionTags == {"1", "2_v1"}
ContentInputs ==
    {<<"a", "LF", "b">>, <<"a", "CR", "LF", "b">>, <<"a", "CR", "b">>, <<"a", "b">>}

InitBlueprint ==
    /\ tracker = TrackerInit("TestComponent", "None")
    /\ loop = LoopInit("default", "default")
    /\ pc = "idle"
    /\ results = EmptyDict
    /\ outcome = "returned"
    /\ phases = <<>>
    /\ pre = None
    /\ saved_data = <<>>
    /\ logged = <<>>
    /\ n_finalize = 0
    /\ protocol = "sealed"
    /\ trend = None
    /\ n_success = 0
    /\ n_calls = 0
    /\ linesep \in {<<"LF">>, <<"CR", "LF">>}
    /\ storage = EmptyDict
    /\ saved = EmptyDict
    /\ loaded = None

SaveBlueprint(name, content, version_tag) ==
    /\ storage' = save_blueprint(storage, linesep, name, content, version_tag).files
    /\ saved' = Put(saved, <<name, version_tag>>, content)
    /\ loaded' = None
    /\ UNCHANGED <<trackervars, n_calls, linesep>>

LoadBlueprint(name, version_tag) ==
    /\ loaded' = Some([name |-> name, version_tag |-> version_tag,
                        ret |-> load_blueprint(storage, name, version_tag)])
    /\ UNCHANGED <<trackervars, n_calls, linesep, storage, saved>>

DiffBlueprints(name, v1, v2) ==
    /\ loaded' = Some([name |-> name, v1 |-> v1, v2 |-> v2,
                        diff |-> diff_blueprints(storage, name, v1, v2)])
    /\ UNCHANGED <<trackervars, n_calls, linesep, storage, saved>>

NextBlueprint ==
    \/ \E name \in BlueprintNames, content \in ContentInputs, version_tag \in VersionTags :
          SaveBlueprint(name, content, version_tag)
    \/ \E name \in BlueprintNames, version_tag \in VersionTags :
          LoadBlueprint(name, version_tag)
    \/ \E name \in BlueprintNames, v1 \in VersionTags, v2 \in VersionTags :
          DiffBlueprints(name, v1, v2)

SpecBlueprint == InitBlueprint /\ [][NextBlueprint]_vars

(***************************************************************************)
(* A fresh tracker driven by run_full_cycle alone: the caller makes no     *)
(* direct call of a tracker method.                                        *)
(***************************************************************************)
NextLoop ==
    \/ CycleTest
    \/ CycleAnalyze
    \/ CycleApply
    \/ CycleAdvance
    \/ CycleValidate

SpecLoop == Init /\ [][NextLoop]_vars

(***************************************************************************)
(* Properties of the GenerationTracker.                                    *)
(***************************************************************************)
History == tracker.history
GenIds == [i \in 1..Len(History) |-> History[i].gen_id]

\* C1 as stated: in every reachable state history[i].gen_id = i+1 for every
\* index i (counted from 0), whatever calls were made.
C1_GenIdsAreIndexPlusOne ==
    \A i \in 1..Len(History) : GenIds[i] = i

\* C1, amended: the gen_id values of history never decrease and never exceed
\* current_generation; they are 1, 2, 3, ... (history[i].gen_id = i+1) as long
\* as start_next_generation and finalize_generation have been called
\* alternately, start first.
C1_GenIdsMonotoneAndDenseUnderProtocol ==
    /\ \A i, j \in 1..Len(History) : i <= j => GenIds[i] <= GenIds[j]
    /\ \A i \in 1..Len(History) : GenIds[i] <= tracker.current_generation
    /\ protocol # "broken" => \A i \in 1..Len(History) : GenIds[i] = i

C1_Witness ==
    /\ protocol = "sealed"
    /\ Len(History) = 2
    /\ GenIds = <<1, 2>>

\* C2: current_generation is 0 after construction; every
\* start_next_generation (a direct call, or the one of the ADVANCE phase) adds
\* exactly 1 to it and returns the new value; no other operation changes it;
\* the length of history is the number of finalize_generation calls so far.
C2_CounterAndHistoryLength ==
    /\ tracker.current_generation = 0
    /\ [](Len(History) = n_finalize)
    /\ [][ /\ StartNextGeneration =>
                /\ tracker'.current_generation = tracker.current_generation + 1
                /\ start_next_generation(tracker).ret = tracker'.current_generation
           /\ CycleAdvance =>
                tracker'.current_generation = tracker.current_generation + 1
           /\ (LogMetric \/ RegisterArtifact \/ FinalizeGeneration \/ CycleTest
                 \/ CycleAnalyze \/ CycleApply \/ CycleValidate) =>
                tracker'.current_generation = tracker.current_generation
         ]_vars

C2_Witness ==
    /\ tracker.current_generation = 2
    /\ n_finalize = 3
    /\ Len(History) = 3

\* C3: the first history entry has parent_gen_id = None and every later entry
\* has parent_gen_id equal to the gen_id of the entry before it.
C3_ParentIsPreviousGenId ==
    \A i \in 1..Len(History) :
        History[i].parent_gen_id = IF i = 1 THEN None ELSE Some(History[i - 1].gen_id)

C3_Witness ==
    /\ Len(History) = 3
    /\ History[2].gen_id = History[3].gen_id
    /\ History[3].parent_gen_id = Some(History[2].gen_id)
    /\ History[1].gen_id = 0

\* C4: history is append-only and its snapshots are immutable: every step
\* keeps every snapshot of history at its position with all its fields.
C4_HistoryAppendOnly ==
    [][ /\ Len(tracker'.history) >= Len(tracker.history)
        /\ \A i \in 1..Len(tracker.history) : tracker'.history[i] = tracker.history[i]
      ]_vars

C4_Witness ==
    /\ Len(History) = 2
    /\ History[1].gen_id = History[2].gen_id
    /\ History[1].metrics # History[2].metrics
    /\ History[2].metrics # tracker._current_metrics
    /\ tracker.current_generation > History[2].gen_id

\* C5: the metrics of the snapshot finalize_generation returns (and appends)
\* are exactly the metrics logged since the most recent
\* start_next_generation, or since construction, in logging order.
C5_SnapshotMetricsAreThoseLogged ==
    /\ [](pc = "idle" =>
             \A in \in FinalizeInputs :
                 LET r == finalize_generation(tracker, in[1], in[2])
                 IN ~r.raised => TheValue(r.ret).metrics = logged)
    /\ [][ (FinalizeGeneration \/ CycleAdvance) =>
               /\ Len(tracker'.history) = Len(tracker.history) + 1
               /\ tracker'.history[Len(tracker'.history)].metrics = logged'
         ]_vars

C5_Witness ==
    /\ Len(History) = 1
    /\ n_calls = 5
    /\ tracker.current_generation = 1
    /\ Len(logged) = 2
    /\ logged[1] # logged[2]
    /\ History[1].metrics = logged
    /\ History[1].artifacts = EmptyDict

\* The positions of history whose snapshot holds a metric named x, the k-th
\* of them, and the value of the first such metric of a snapshot
Holding(x) ==
    {i \in 1..Len(History) : \E j \in 1..Len(History[i].metrics) : History[i].metrics[j].name = x}
KthOf(idx, k) == CHOOSE i \in idx : Cardinality({j \in idx : j <= i}) = k
FirstValue(snap, x) ==
    LET js == {j \in 1..Len(snap.metrics) : snap.metrics[j].name = x}
    IN snap.metrics[CHOOSE j \in js : \A j2 \in js : j <= j2].value

\* C12 as stated: for any history get_metric_trend(x) has exactly one pair
\* for each generation that logged a metric named x and none for any other
\* generation, and the pairs are in ascending gen_id order.
C12_TrendOnePairPerGeneration ==
    \A x \in TrendNames :
        LET tr == get_metric_trend(tracker, x)
        IN /\ \A g \in 0..tracker.current_generation :
                  Cardinality({k \in 1..Len(tr) : tr[k][1] = g})
                      = IF \E i \in Holding(x) : History[i].gen_id = g THEN 1 ELSE 0
           /\ \A k, l \in 1..Len(tr) : k < l => tr[k][1] < tr[l][1]

\* C12, amended: get_metric_trend(x) has exactly one pair for each snapshot
\* of history that holds a metric named x and none for any other snapshot, in
\* the order of history; the pair is the snapshot's gen_id with the value of
\* the first metric named x of the snapshot; the gen_ids never decrease, and
\* they increase (one pair per generation) as long as start_next_generation
\* and finalize_generation have been called alternately; the call changes no
\* tracker state.
C12_TrendOnePairPerSnapshot ==
    /\ [](\A x \in TrendNames :
             LET tr == get_metric_trend(tracker, x)
             IN /\ Len(tr) = Cardinality(Holding(x))
                /\ \A k \in 1..Len(tr) :
                       LET snap == History[KthOf(Holding(x), k)]
                       IN tr[k] = <<snap.gen_id, FirstValue(snap, x)>>
                /\ \A k, l \in 1..Len(tr) : k < l => tr[k][1] <= tr[l][1]
                /\ protocol # "broken" =>
                       \A k, l \in 1..Len(tr) : k < l => tr[k][1] < tr[l][1])
    /\ [][ GetMetricTrend =>
               /\ tracker' = tracker
               /\ \E x \in TrendNames :
                      trend' = Some([metric_name |-> x, ret |-> get_metric_trend(tracker, x)])
         ]_vars

C12_Witness ==
    /\ trend = Some([metric_name |-> "cpu_usage", ret |-> << <<1, 50>> >>])
    /\ Len(History) = 1
    /\ Len(History[1].metrics) = 2
    /\ History[1].metrics[2].value = 45

\* C13: on a tracker constructed with a persistence callback every
\* finalize_generation (a direct call, or the one of the ADVANCE phase) calls
\* the callback exactly once before it returns, with a mapping whose gen_id,
\* component_name, status, changelog and parent_gen_id are those of the
\* snapshot just appended; no other operation calls it; and when the callback
\* raises, the call of finalize_generation ends with that exception.
LastOf(seq) == seq[Len(seq)]
C13_CallbackOncePerFinalize ==
    /\ [](Len(saved_data) = n_finalize)
    /\ [][ /\ (FinalizeGeneration \/ CycleAdvance) =>
                /\ Len(saved_data') = Len(saved_data) + 1
                /\ SubSeq(saved_data', 1, Len(saved_data)) = saved_data
                /\ LET data == LastOf(saved_data')
                       snapshot == LastOf(tracker'.history)
                   IN /\ data.gen_id = snapshot.gen_id
                      /\ data.component_name = snapshot.component_name
                      /\ data.status = snapshot.status.value
                      /\ data.changelog = snapshot.changelog
                      /\ data.parent_gen_id = snapshot.parent_gen_id
                /\ (outcome' = "CallbackError") <=> (tracker._persistence_callback = "raises")
           /\ ~(FinalizeGeneration \/ CycleAdvance) => saved_data' = saved_data
         ]_vars

C13_Witness ==
    /\ tracker._persistence_callback = "raises"
    /\ outcome = "CallbackError"
    /\ Len(saved_data) = 2
    /\ saved_data[2].parent_gen_id = Some(1)
    /\ saved_data[2].gen_id = 2
    /\ saved_data[2].status = "STABLE"

\* C16: finalize_generation changes neither current_generation nor the
\* working set of metrics and artifacts; so a finalize_generation made when
\* the generation has been finalized already (no start_next_generation
\* since) appends a second snapshot with the same gen_id, whose metrics are
\* those of the first snapshot followed by the metrics logged since, and the
\* first snapshot stays as it was.
FinalizedAlready ==
    History # <<>> /\ LastOf(History).gen_id = tracker.current_generation
C16_FinalizeKeepsWorkingSet ==
    [][ FinalizeGeneration =>
           /\ tracker'.current_generation = tracker.current_generation
           /\ tracker'._current_metrics = tracker._current_metrics
           /\ tracker'._current_artifacts = tracker._current_artifacts
           /\ Len(tracker'.history) = Len(History) + 1
           /\ FinalizedAlready =>
                 LET first == LastOf(History)
                     second == LastOf(tracker'.history)
                 IN /\ tracker'.history[Len(History)] = first
                    /\ second.gen_id = first.gen_id
                    /\ Len(second.metrics) >= Len(first.metrics)
                    /\ SubSeq(second.metrics, 1, Len(first.metrics)) = first.metrics
                    /\ second.metrics = tracker._current_metrics
                    /\ second.artifacts = tracker._current_artifacts
      ]_vars

C16_Witness ==
    /\ Len(History) = 2
    /\ tracker.current_generation = 1
    /\ History[1].gen_id = 1
    /\ History[2].gen_id = 1
    /\ Len(History[1].metrics) = 1
    /\ Len(History[2].metrics) = 2
    /\ History[2].metrics[1] = History[1].metrics[1]
    /\ tracker._current_metrics = History[2].metrics

\* C22: finalize_generation appends the snapshot before it calls the
\* persistence callback: when the callback raises, the call (direct, or of
\* the ADVANCE phase, which ends the cycle) ends with the exception, yet
\* history is one snapshot longer than before and the callback has been given
\* that snapshot; a finalize_generation made again then appends a second
\* snapshot with the same gen_id, whose parent is the first.
CallbackRaises == tracker._persistence_callback = "raises"
C22_SnapshotAppendedBeforeCallback ==
    [][ /\ (CallbackRaises /\ (FinalizeGeneration \/ CycleAdvance)) =>
            /\ outcome' = "CallbackError"
            /\ pc' = "idle"
            /\ Len(tracker'.history) = Len(History) + 1
            /\ SubSeq(tracker'.history, 1, Len(History)) = History
            /\ LastOf(tracker'.history).gen_id = tracker'.current_generation
            /\ LastOf(saved_data') = to_json(LastOf(tracker'.history))
        /\ (CallbackRaises /\ FinalizeGeneration /\ outcome = "CallbackError" /\ History # <<>>) =>
            /\ LastOf(tracker'.history).gen_id = LastOf(History).gen_id
            /\ LastOf(tracker'.history).parent_gen_id = Some(LastOf(History).gen_id)
            /\ tracker'.history[Len(History)] = LastOf(History)
      ]_vars

C22_Witness ==
    /\ CallbackRaises
    /\ outcome = "CallbackError"
    /\ n_finalize = 2
    /\ Len(History) = 2
    /\ History[1].gen_id = 1
    /\ History[2].gen_id = 1
    /\ History[2].parent_gen_id = Some(1)
    /\ Len(saved_data) = 2

(***************************************************************************)
(* Properties of run_full_cycle.  A call has ended when pc = "idle" and    *)
(* pre is not None; pre is then the tracker as the call found it.          *)
(***************************************************************************)
CycleEnded == pc = "idle" /\ pre # None
TestSucceeded == "test" \in DOMAIN results /\ GetOr(results["test"], "success", FALSE)
TestFailed == "test" \in DOMAIN results /\ ~GetOr(results["test"], "success", FALSE)
AllPhases == <<"TEST", "ANALYZE", "APPLY", "ADVANCE", "VALIDATE">>
AllKeys == {"test", "analyze", "apply", "advance", "validate"}

\* C6 as stated: every run_full_cycle whose Test phase returns success=true
\* runs all five phases and returns a mapping with the five keys; afterwards
\* current_generation is 1 greater than before and history has one more
\* entry, whose changelog is the list of changes Apply reported.
C6_SuccessfulCycleAdvancesOnce ==
    (CycleEnded /\ TestSucceeded) =>
        /\ outcome = "returned"
        /\ DOMAIN results = AllKeys
        /\ Len(phases) = 5
        /\ tracker.current_generation = TheValue(pre).current_generation + 1
        /\ Len(History) = Len(TheValue(pre).history) + 1
        /\ History[Len(History)].changelog = GetOr(results["apply"], "changes", <<>>)

\* C14: on a fresh tracker, finalize_generation(status=ALPHA) before any
\* start_next_generation followed by three run_full_cycle calls that run all
\* five phases ends with current_generation = 3 and a history of 4 snapshots,
\* the first with gen_id 0 and each later one with the gen_id of the one
\* before it as parent_gen_id, and get_metric_trend("applied_change") has
\* one entry for each of the three generations whose Apply phase reported at
\* least one change (its changes are the changelog of the snapshot) and no
\* other entry.
GenerationZeroThenThreeCycles ==
    /\ pc = "idle"
    /\ n_calls = 4
    /\ n_success = 3
    /\ History # <<>>
    /\ History[1].gen_id = 0
    /\ History[1].status = ALPHA
TrendGenIds(x) ==
    LET tr == get_metric_trend(tracker, x) IN [k \in 1..Len(tr) |-> tr[k][1]]
C14_GenerationZeroScenario ==
    GenerationZeroThenThreeCycles =>
        /\ tracker.current_generation = 3
        /\ Len(History) = 4
        /\ History[1].parent_gen_id = None
        /\ \A i \in 2..4 : /\ History[i].gen_id = i - 1
                            /\ History[i].parent_gen_id = Some(History[i - 1].gen_id)
        /\ History[4].changelog = GetOr(results["apply"], "changes", <<>>)
        /\ TrendGenIds("applied_change")
              = SelectSeq(<<1, 2, 3>>, LAMBDA g : History[g + 1].changelog # <<>>)

C14_Witness ==
    /\ GenerationZeroThenThreeCycles
    /\ TrendGenIds("applied_change") = <<1, 3>>
    /\ History[1].changelog = <<"Initial setup">>
    /\ Len(History[4].metrics) = 2

\* C15: during run_full_cycle current_generation and history change only in
\* the ADVANCE phase, which has set current_phase to ADVANCE when it changes
\* them; the TEST, ANALYZE and APPLY phases leave them as they were before
\* the cycle, and the VALIDATE phase leaves them as ADVANCE left them.
GenerationState(t) == <<t.current_generation, t.history>>
C15_OnlyAdvanceChangesGenerations ==
    /\ []((pre # None /\ pc \in {"analyze", "apply", "advance"}) =>
              GenerationState(tracker) = GenerationState(TheValue(pre)))
    /\ [][ /\ (CycleTest \/ CycleAnalyze \/ CycleApply \/ CycleValidate) =>
                GenerationState(tracker') = GenerationState(tracker)
           /\ CycleValidate => loop'.current_phase = "VALIDATE"
           /\ CycleAdvance =>
                /\ loop'.current_phase = "ADVANCE"
                /\ GenerationState(tracker') # GenerationState(tracker)
         ]_vars

C15_Witness ==
    /\ pc = "idle"
    /\ pre # None
    /\ loop.current_phase = "VALIDATE"
    /\ DOMAIN results = AllKeys
    /\ tracker.current_generation = 2
    /\ TheValue(pre).current_generation = 1
    /\ Len(History) = Len(TheValue(pre).history) + 1

\* C17: the ADVANCE phase calls start_next_generation, then log_metric
\* ("applied_change", 1, tag desc = the change) once per change Apply
\* reported, then finalize_generation(notes = changes): the snapshot it
\* appends has the new current_generation as gen_id, the changes as
\* changelog, and as metrics exactly one applied_change metric of value 1 per
\* change, tagged with the change, in the order of the changes.
AppliedChanges(changes) ==
    [i \in 1..Len(changes) |-> GenerationMetric("applied_change", 1, [desc |-> changes[i]])]
C17_AdvanceStartsLogsFinalizes ==
    [][ CycleAdvance =>
           LET changes == GetOr(results["apply"], "changes", <<>>)
               snapshot == LastOf(tracker'.history)
           IN /\ tracker'.current_generation = tracker.current_generation + 1
              /\ Len(tracker'.history) = Len(History) + 1
              /\ snapshot.gen_id = tracker'.current_generation
              /\ snapshot.status = STABLE
              /\ snapshot.changelog = changes
              /\ snapshot.metrics = AppliedChanges(changes)
              /\ snapshot.artifacts = EmptyDict
              /\ results'["advance"].gen_id = snapshot.gen_id
      ]_vars

C17_Witness ==
    /\ pc = "validate"
    /\ tracker.current_generation = 2
    /\ LastOf(History).gen_id = 2
    /\ LastOf(History).changelog = <<"c1", "c2">>
    /\ LastOf(History).metrics = AppliedChanges(<<"c1", "c2">>)
    /\ TheValue(pre)._current_metrics # <<>>

\* C18 as stated: also when the caller has replaced phase_test or
\* phase_apply, current_phase is TEST while the Test function runs, in every
\* cycle, and APPLY while the Apply function runs.  (A replaced function
\* leaves current_phase alone, so the value recorded after it is the value
\* it ran under.)
C18_MarkerSetForReplacedPhases ==
    pre # None =>
        /\ phases[1] = "TEST"
        /\ Len(phases) >= 3 => phases[3] = "APPLY"

\* C19 as stated: when the Test phase returns a result with the key success
\* (true) alone and the other four phases are the default ones,
\* run_full_cycle runs all five phases and returns the mapping with all five
\* keys; no phase raises.
C19_SuccessAloneIsEnough ==
    (CycleEnded /\ loop.phase_apply = "default" /\ results["test"] = [success |-> TRUE]) =>
        /\ outcome = "returned"
        /\ Len(phases) = 5
        /\ DOMAIN results = AllKeys

\* C20: on a fresh tracker driven by run_full_cycle alone, after every cycle
\* (whether its Test phase succeeded or failed, or the cycle ended with an
\* exception) current_generation = length of history = number of cycles so
\* far that ran all five phases, history[i].gen_id = i+1 for every index i
\* (counted from 0), and the last snapshot's gen_id is current_generation.
C20_CyclesKeepCounterAndHistoryInStep ==
    pc = "idle" =>
        /\ tracker.current_generation = Len(History)
        /\ Len(History) = n_success
        /\ \A i \in 1..Len(History) : History[i].gen_id = i
        /\ History # <<>> => LastOf(History).gen_id = tracker.current_generation

C20_Witness ==
    /\ pc = "idle"
    /\ n_calls = 5
    /\ n_success = 3
    /\ GenIds = <<1, 2, 3>>
    /\ TestFailed
    /\ loop.current_phase = "VALIDATE"

\* C7: a run_full_cycle whose Test phase returns success=false ends at once:
\* no other phase runs, the mapping returned has the key test alone, and
\* current_generation and history are as they were before the call.
C7_FailedTestAborts ==
    /\ TestFailed => pc = "idle"
    /\ (CycleEnded /\ TestFailed) =>
          /\ outcome = "returned"
          /\ DOMAIN results = {"test"}
          /\ Len(phases) = 1
          /\ tracker.current_generation = TheValue(pre).current_generation
          /\ tracker.history = TheValue(pre).history

C7_Witness ==
    /\ CycleEnded
    /\ TestFailed
    /\ Len(History) = 2
    /\ tracker.current_generation = 1
    /\ loop.current_phase = "VALIDATE"

\* C8: with the default phase implementations current_phase takes the values
\* TEST, ANALYZE, APPLY, ADVANCE, VALIDATE in that order, one per phase, in
\* every cycle, and every cycle begins with TEST whatever phase the loop was
\* left in.
DefaultPhases == loop.phase_test = "default" /\ loop.phase_apply = "default"
PhasesDone ==
    CASE pc = "analyze" -> 1
      [] pc = "apply" -> 2
      [] pc = "advance" -> 3
      [] pc = "validate" -> 4
      [] OTHER -> 5

C8_PhasesInOrder ==
    (DefaultPhases /\ pre # None) =>
        /\ phases = SubSeq(AllPhases, 1, PhasesDone)
        /\ loop.current_phase = AllPhases[PhasesDone]
        /\ pc = "idle" => outcome = "returned"

C8_Witness ==
    /\ DefaultPhases
    /\ pc = "analyze"
    /\ phases = <<"TEST">>
    /\ Len(History) = 2
    /\ History[2].changelog = <<"Ran optimizer">>

\* C21: when the tracker is driven by run_full_cycle alone, with the default
\* phases, no snapshot of history holds a phase_test_duration_ms or a
\* validation_success metric: every snapshot holds applied_change metrics
\* only, get_metric_trend is empty for both names, and the ADVANCE phase
\* finds the Test metric in the working set and leaves none of the two there.
NamesOf(metrics) == {metrics[j].name : j \in 1..Len(metrics)}
PhaseMetricNames == {"phase_test_duration_ms", "validation_success"}
C21_PhaseMetricsNeverSealed ==
    /\ [](DefaultPhases =>
             /\ \A i \in 1..Len(History) : NamesOf(History[i].metrics) \subseteq {"applied_change"}
             /\ \A x \in PhaseMetricNames : get_metric_trend(tracker, x) = <<>>)
    /\ [][ (DefaultPhases /\ CycleAdvance) =>
               /\ "phase_test_duration_ms" \in NamesOf(tracker._current_metrics)
               /\ NamesOf(tracker'._current_metrics) \cap PhaseMetricNames = {}
               /\ LastOf(tracker'.history).metrics = tracker'._current_metrics
         ]_vars

C21_Witness ==
    /\ DefaultPhases
    /\ pc = "idle"
    /\ n_success = 2
    /\ Len(History) = 2
    /\ NamesOf(History[2].metrics) = {"applied_change"}
    /\ NamesOf(tracker._current_metrics) = {"applied_change", "validation_success"}

(***************************************************************************)
(* Properties of the GenerationalBlueprintManager.                         *)
(***************************************************************************)
\* C9 as stated: load_blueprint(name, tag) returns exactly the content given
\* to the most recent save_blueprint(name, content, tag), character for
\* character, whatever characters and line endings the content has.
C9_LoadReturnsLastSaved ==
    \A p \in DOMAIN saved : load_blueprint(storage, p[1], p[2]) = Some(saved[p])

\* C10 as stated: save_blueprint under (name1, tag1) leaves the result of
\* load_blueprint(name2, tag2) unchanged for every other pair (name2, tag2).
C10_SaveLeavesOtherPairs ==
    [][ \A name1 \in BlueprintNames, content \in ContentInputs, tag1 \in VersionTags :
           SaveBlueprint(name1, content, tag1) =>
               \A name2 \in BlueprintNames, tag2 \in VersionTags :
                   <<name2, tag2>> # <<name1, tag1>> =>
                       load_blueprint(storage', name2, tag2) = load_blueprint(storage, name2, tag2)
      ]_vars

\* C11 as stated: a (name, tag) that was never saved loads as not-found, and
\* diff_blueprints where at least one of the two versions was never saved
\* returns exactly one element, the error message; a diff raises nothing and
\* leaves the store as it was.
NeverSaved(name, version_tag) == <<name, version_tag>> \notin DOMAIN saved
C11_AbsentVersionIsAValue ==
    \A name \in BlueprintNames, v1 \in VersionTags, v2 \in VersionTags :
        /\ NeverSaved(name, v1) => load_blueprint(storage, name, v1) = None
        /\ (NeverSaved(name, v1) \/ NeverSaved(name, v2)) =>
               diff_blueprints(storage, name, v1, v2)
                   = <<"Error: One or both versions not found.">>

====
